---- MODULE Spec2Model ----
(***************************************************************************)
(* Model of streamlit_analytics_app.py: the paginated Notion fetch loop    *)
(* (get_sales_data), the record normalizer (extract_sale_data) and the     *)
(* aggregation done by main() over the dated sales.                        *)
(*                                                                         *)
(* Dates are proleptic Gregorian ordinals, computed as datetime.date does  *)
(* (toordinal); the wall clock and the date strings of the raw records are *)
(* (year, month, day) triples.  None is modelled by the sentinels NoDate   *)
(* and NoCursor.                                                           *)
(***************************************************************************)
EXTENDS Integers, Sequences, FiniteSets, TLC

VARIABLES
    server,       \* the responses the Notion API gives, in request order
    clock,        \* the wall-clock date read by date.today()
    pc,           \* position of the script run
    all_results,  \* get_sales_data: pages accumulated so far
    has_more,     \* get_sales_data: loop condition
    next_cursor,  \* get_sales_data: cursor for the next request
    requests,     \* request bodies posted so far (start_cursor or NoCursor)
    raw_data,     \* main: value returned by get_sales_data
    idx,          \* main: position of the normalisation loop in raw_data
    sales_data,   \* main: the dated sales kept so far (rows of df)
    shown,        \* main: which view was rendered
    report        \* main: the values computed for the dashboard

vars == <<server, clock, pc, all_results, has_more, next_cursor, requests,
          raw_data, idx, sales_data, shown, report>>

-----------------------------------------------------------------------------
(* Calendar arithmetic of datetime.date *)

is_leap(y) == y % 4 = 0 /\ (y % 100 # 0 \/ y % 400 = 0)

days_in_month(y, m) ==
    IF m = 2 THEN (IF is_leap(y) THEN 29 ELSE 28)
    ELSE IF m \in {4, 6, 9, 11} THEN 30 ELSE 31

days_before_year(y) ==
    (y - 1) * 365 + ((y - 1) \div 4) - ((y - 1) \div 100) + ((y - 1) \div 400)

RECURSIVE days_before_month(_, _)
days_before_month(y, m) ==
    IF m = 1 THEN 0 ELSE days_before_month(y, m - 1) + days_in_month(y, m - 1)

\* date(y, m, d).toordinal()
ymd2ord(y, m, d) == days_before_year(y) + days_before_month(y, m) + d

\* date.weekday(): Monday is 0
weekday(ord) == (ord + 6) % 7

\* x - timedelta(days=x.weekday())
MondayOf(ord) == ord - weekday(ord)

-----------------------------------------------------------------------------
(* Raw records and the record normalizer *)

NoDate == 0
NoCursor == "None"
Placeholder == "Produit sans nom"

\* datetime.strptime(s, "%Y-%m-%d").date(): s is the text y-m-d followed by
\* rest; anything left unconverted, a month outside 1..12 or a day the
\* month does not have raises ValueError.
strptime_ok(s) ==
    /\ s.rest = ""
    /\ s.m \in 1..12
    /\ s.d >= 1
    /\ s.d <= days_in_month(s.y, s.m)

strptime_date(s) == ymd2ord(s.y, s.m, s.d)

\* x or 0
OrZero(f) == IF f.kind = "num" THEN f.v ELSE 0

\* lines 79-83: the date lookup and parse, every exception giving None
ParseSaleDate(f) ==
    IF f.kind = "str" /\ strptime_ok(f) THEN strptime_date(f) ELSE NoDate

\* lines 58 and 89: the two places outside any try block.  A page without
\* "properties" raises KeyError; a price that is a (non-empty) string
\* survives "or 0" and raises TypeError in the subtraction.
ExtractRaises(page) ==
    \/ ~page.has_props
    \/ page.sell.kind = "str"
    \/ page.buy.kind = "str"

extract_sale_data(page) ==
    [ title      |-> IF page.title.kind = "text" THEN page.title.v ELSE Placeholder,
      sell_price |-> OrZero(page.sell),
      buy_price  |-> OrZero(page.buy),
      margin     |-> OrZero(page.sell) - OrZero(page.buy),
      sale_date  |-> ParseSaleDate(page.date) ]

\* faulty variant: the date filter lets every sale through
DateTruthyAlways(sale) == TRUE

\* if sale["sale_date"]: None is falsy, every date object is truthy
DateTruthy(sale) == sale.sale_date # NoDate

-----------------------------------------------------------------------------
(* Helpers over the rows of df (a sequence of sales, indexed from 1) *)

RECURSIVE SumSeq(_)
SumSeq(s) == IF s = <<>> THEN 0 ELSE s[1] + SumSeq(Tail(s))

Rows(df) == DOMAIN df

\* df[mask]: the rows whose index is in keep, in df order
RECURSIVE Select(_, _)
Select(df, keep) ==
    IF df = <<>> THEN <<>>
    ELSE LET n == Len(df)
             front == Select(SubSeq(df, 1, n - 1), keep)
         IN  IF n \in keep THEN Append(front, df[n]) ELSE front

SumSell(df) == SumSeq([i \in Rows(df) |-> df[i].sell_price])
SumMargin(df) == SumSeq([i \in Rows(df) |-> df[i].margin])

MinOf(S) == CHOOSE x \in S : \A y \in S : x <= y
MaxOf(S) == CHOOSE x \in S : \A y \in S : x >= y

\* the elements of a set of integers in increasing order
RECURSIVE Ascending(_)
Ascending(S) ==
    IF S = {} THEN <<>> ELSE <<MinOf(S)>> \o Ascending(S \ {MinOf(S)})

\* faulty variant: the first n entries instead of the last n
HeadN(s, n) == IF Len(s) <= n THEN s ELSE SubSeq(s, 1, n)

\* s.tail(n)
TailN(s, n) == IF Len(s) <= n THEN s ELSE SubSeq(s, Len(s) - n + 1, Len(s))

-----------------------------------------------------------------------------
(* The aggregation of main() *)

DAILY_PERIODS == 30
WEEKLY_TAIL == 12
TOP_N == 10
RECENT_N == 10
SMALL_QUICKSORT == 16

\* lines 153-155
Today == ymd2ord(clock.y, clock.m, clock.d)
week_start(today) == today - weekday(today)
month_start(today) == ymd2ord(clock.y, clock.m, 1)

\* lines 158-160
TodayMask(df, today) == {i \in Rows(df) : df[i].sale_date = today}
\* faulty variant: the week starts after its Monday (> for >=)
WeekMaskStrict(df, today) == {i \in Rows(df) : df[i].sale_date > week_start(today)}

WeekMask(df, today) == {i \in Rows(df) : df[i].sale_date >= week_start(today)}
\* faulty variant: the first day of the month is left out (> for >=)
MonthMaskStrict(df, today) == {i \in Rows(df) : df[i].sale_date > month_start(today)}

MonthMask(df, today) == {i \in Rows(df) : df[i].sale_date >= month_start(today)}

\* count, revenue and margin of one period (lines 166-184, 259-279)
Totals(part) ==
    [count |-> Len(part), revenue |-> SumSell(part), margin |-> SumMargin(part)]

\* line 188: the rate is computed only when the month's revenue is positive
\* (whole percent here; the display keeps one decimal)
taux_marge(part) ==
    IF SumSell(part) > 0 THEN (SumMargin(part) * 100) \div SumSell(part) ELSE 0

\* faulty variant: the window ends the day before today
daily_sales_yesterday(df, today) ==
    [k \in 1..DAILY_PERIODS |->
        LET day == today - DAILY_PERIODS + k - 1
        IN  [date |-> day,
             n    |-> Cardinality({i \in Rows(df) : df[i].sale_date = day})]]

\* lines 205-208: pd.date_range(end=today, periods=30) and the reindexed
\* group sizes
daily_sales(df, today) ==
    [k \in 1..DAILY_PERIODS |->
        LET day == today - DAILY_PERIODS + k
        IN  [date |-> day,
             n    |-> Cardinality({i \in Rows(df) : df[i].sale_date = day})]]

\* lines 222-223: groupby('week') sorts the group keys; tail(12)
WeekOf(sale) == MondayOf(sale.sale_date)

weekly_ca(df) ==
    LET weeks == Ascending({WeekOf(df[i]) : i \in Rows(df)})
        grouped == [k \in DOMAIN weeks |->
                       [week |-> weeks[k],
                        ca   |-> SumSell(Select(df, {i \in Rows(df) :
                                                     WeekOf(df[i]) = weeks[k]}))]]
    IN  TailN(grouped, WEEKLY_TAIL)

\* line 238: Counter(df['title']) keeps the titles in first-seen order
RECURSIVE CounterKeys(_)
CounterKeys(df) ==
    IF df = <<>> THEN <<>>
    ELSE LET n == Len(df)
             front == CounterKeys(SubSeq(df, 1, n - 1))
         IN  IF \E k \in DOMAIN front : front[k] = df[n].title
             THEN front ELSE Append(front, df[n].title)

Counter(df) ==
    LET keys == CounterKeys(df)
    IN  [k \in DOMAIN keys |->
            [title |-> keys[k],
             n     |-> Cardinality({i \in Rows(df) : df[i].title = keys[k]})]]

\* faulty variant: among equal counts the title seen last comes first
NextLargestLast(items, left) ==
    MaxOf({i \in left : \A j \in left : items[j].n <= items[i].n})

\* which of the remaining items comes next: the largest count, the earliest
\* of those in the sequence (sorted(..., reverse=True) is stable)
NextLargest(items, left) ==
    MinOf({i \in left : \A j \in left : items[j].n <= items[i].n})

\* Counter.most_common(n) = heapq.nlargest(n, items, key=count)
\*                        = sorted(items, key=count, reverse=True)[:n]
RECURSIVE NLargest(_, _, _)
NLargest(items, left, n) ==
    IF n = 0 \/ left = {} THEN <<>>
    ELSE LET i == NextLargest(items, left)
         IN  <<items[i]>> \o NLargest(items, left \ {i}, n - 1)

most_common(items, n) == NLargest(items, DOMAIN items, n)

top_products(df) == most_common(Counter(df), TOP_N)

\* lines 287-288: Series.mean() divides the sum by the row count (NaN, here
\* the marker -1, on an empty frame)
Mean(total, n) == IF n = 0 THEN -1 ELSE total \div n

\* line 295: sort_values('sale_date', ascending=False) uses the default
\* kind='quicksort'.  numpy's introsort only insertion-sorts (which keeps
\* equal keys in order) while the array has at most SMALL_QUICKSORT + 1
\* elements; above that it partitions and equal keys come out in an order
\* the library does not promise.
SortIsStable(df) == Len(df) - 1 <= SMALL_QUICKSORT

\* the rows that may come next in descending date order
NextRecent(df, left, stable) ==
    LET latest == {i \in left : \A j \in left : df[j].sale_date <= df[i].sale_date}
    IN  IF stable THEN {MinOf(latest)} ELSE latest

\* every possible sort_values(...).head(n), as sequences of row labels
RECURSIVE SortedHeads(_, _, _, _)
SortedHeads(df, left, n, stable) ==
    IF n = 0 \/ left = {} THEN {<<>>}
    ELSE UNION {{<<i>> \o rest : rest \in SortedHeads(df, left \ {i}, n - 1, stable)} :
                i \in NextRecent(df, left, stable)}

recent_sales(df) == SortedHeads(df, Rows(df), RECENT_N, SortIsStable(df))

\* number of divisions main() performs: the margin rate (line 188) when the
\* month's revenue is positive, and the two means (lines 287-288)
Divisions(df, today) ==
    (IF SumSell(Select(df, MonthMask(df, today))) > 0 THEN 1 ELSE 0) + 2

NoReport ==
    [computed |-> FALSE, today |-> NoDate,
     week_start |-> NoDate, month_start |-> NoDate,
     i_today |-> {}, i_week |-> {}, i_month |-> {},
     p_today |-> Totals(<<>>), p_week |-> Totals(<<>>),
     p_month |-> Totals(<<>>), p_total |-> Totals(<<>>),
     taux |-> 0, daily |-> <<>>, weekly |-> <<>>, top |-> <<>>,
     mean_ca |-> 0, mean_margin |-> 0, recent |-> <<>>, divisions |-> 0]

Dashboard(df, today, recent) ==
    [computed |-> TRUE, today |-> today,
     week_start |-> week_start(today), month_start |-> month_start(today),
     i_today |-> TodayMask(df, today),
     i_week  |-> WeekMask(df, today),
     i_month |-> MonthMask(df, today),
     p_today |-> Totals(Select(df, TodayMask(df, today))),
     p_week  |-> Totals(Select(df, WeekMask(df, today))),
     p_month |-> Totals(Select(df, MonthMask(df, today))),
     p_total |-> Totals(df),
     taux |-> taux_marge(Select(df, MonthMask(df, today))),
     daily |-> daily_sales(df, today),
     weekly |-> weekly_ca(df),
     top |-> top_products(df),
     mean_ca |-> Mean(SumSell(df), Len(df)),
     mean_margin |-> Mean(SumMargin(df), Len(df)),
     recent |-> recent,
     divisions |-> Divisions(df, today)]

-----------------------------------------------------------------------------
(* The run of the script: get_sales_data(), then main() *)

\* faulty variant: an API error returns the pages fetched so far
ErrorResultPartial(fetched) == fetched

\* return [] (line 47)
ErrorResult(fetched) == <<>>

\* one iteration of the while loop of get_sales_data (lines 39-52); a
\* response that is not 200 makes the function return [] at once
GetSalesDataIter ==
    /\ pc = "fetch"
    /\ has_more
    /\ Len(requests) < Len(server)
    /\ LET response == server[Len(requests) + 1]
       IN  /\ requests' = Append(requests, next_cursor)
           /\ IF response.status # 200
              THEN /\ raw_data' = ErrorResult(all_results)
                   /\ pc' = "fetched"
                   /\ UNCHANGED <<all_results, has_more, next_cursor>>
              ELSE /\ all_results' = all_results \o response.results
                   /\ has_more' = (response.has_more = "true")
                   /\ next_cursor' = response.next_cursor
                   /\ UNCHANGED <<pc, raw_data>>
    /\ UNCHANGED <<server, clock, idx, sales_data, shown, report>>

\* the loop ends and all_results is returned (line 54)
GetSalesDataReturn ==
    /\ pc = "fetch"
    /\ ~has_more
    /\ raw_data' = all_results
    /\ pc' = "fetched"
    /\ UNCHANGED <<server, clock, all_results, has_more, next_cursor, requests,
                   idx, sales_data, shown, report>>

\* lines 135-137
MainCheckRaw ==
    /\ pc = "fetched"
    /\ IF raw_data = <<>>
       THEN shown' = "no_data" /\ pc' = "done"
       ELSE shown' = shown /\ pc' = "normalize"
    /\ UNCHANGED <<server, clock, all_results, has_more, next_cursor, requests,
                   raw_data, idx, sales_data, report>>

\* one iteration of the loop of lines 141-144; an exception leaving
\* extract_sale_data ends the run
MainNormalize ==
    /\ pc = "normalize"
    /\ idx <= Len(raw_data)
    /\ LET page == raw_data[idx]
           sale == extract_sale_data(page)
       IN  IF ExtractRaises(page)
           THEN pc' = "raised" /\ UNCHANGED <<idx, sales_data>>
           ELSE /\ pc' = pc
                /\ idx' = idx + 1
                /\ sales_data' = IF DateTruthy(sale)
                                 THEN Append(sales_data, sale) ELSE sales_data
    /\ UNCHANGED <<server, clock, all_results, has_more, next_cursor, requests,
                   raw_data, shown, report>>

\* faulty variant: the empty frame is not detected
DfEmptyNever(df) == FALSE

\* df.empty (line 148)
DfEmpty(df) == Len(df) = 0

\* lines 146-299: the frame is built and, unless it is empty, everything
\* shown on the dashboard is computed
MainAggregate ==
    /\ pc = "normalize"
    /\ idx > Len(raw_data)
    /\ pc' = "done"
    /\ IF DfEmpty(sales_data)
       THEN shown' = "no_sales" /\ report' = report
       ELSE /\ shown' = "dashboard"
            /\ \E recent \in recent_sales(sales_data) :
                   report' = Dashboard(sales_data, Today, recent)
    /\ UNCHANGED <<server, clock, all_results, has_more, next_cursor, requests,
                   raw_data, idx, sales_data>>

Next ==
    \/ GetSalesDataIter
    \/ GetSalesDataReturn
    \/ MainCheckRaw
    \/ MainNormalize
    \/ MainAggregate

\* the state when the script starts, for a given API behaviour and clock
Start(servers, clocks) ==
    /\ server \in servers
    /\ clock \in clocks
    /\ pc = "fetch"
    /\ all_results = <<>>
    /\ has_more = TRUE
    /\ next_cursor = NoCursor
    /\ requests = <<>>
    /\ raw_data = <<>>
    /\ idx = 1
    /\ sales_data = <<>>
    /\ shown = "none"
    /\ report = NoReport

-----------------------------------------------------------------------------
(* Raw records and API responses the runs are checked on *)

Txt(t) == [kind |-> "text", v |-> t]
NoTitle == [kind |-> "absent", v |-> ""]
Num(n) == [kind |-> "num", v |-> n]
Null == [kind |-> "null", v |-> 0]
Absent == [kind |-> "absent", v |-> 0]
Str == [kind |-> "str", v |-> 0]
DateStr(y, m, d, rest) == [kind |-> "str", y |-> y, m |-> m, d |-> d, rest |-> rest]
NoDateField == [kind |-> "absent", y |-> 0, m |-> 0, d |-> 0, rest |-> ""]

Page(title, sell, buy, date) ==
    [has_props |-> TRUE, title |-> title, sell |-> sell, buy |-> buy, date |-> date]

PageA1 == Page(Txt("A"), Num(100), Num(60), DateStr(2024, 1, 1, ""))
PageA2 == Page(Txt("A"), Num(50), Num(50), DateStr(2024, 1, 1, ""))
PageB == Page(Txt("B"), Num(200), Num(100), DateStr(2024, 1, 8, ""))
PageDefaults == Page(NoTitle, Null, Absent, DateStr(2024, 4, 30, ""))
PageNoDate == Page(Txt("B"), Num(70), Num(30), NoDateField)
PageBadDay == Page(Txt("A"), Num(70), Num(30), DateStr(2024, 2, 30, ""))
PageDateTime == Page(Txt("A"), Num(70), Num(30), DateStr(2024, 1, 8, "T10:00:00"))
PageNoProps == [has_props |-> FALSE, title |-> NoTitle, sell |-> Absent,
                buy |-> Absent, date |-> NoDateField]
PageStrPrice == Page(Txt("B"), Str, Num(10), DateStr(2024, 1, 8, ""))

Pages == {PageA1, PageA2, PageB, PageDefaults, PageNoDate, PageBadDay,
          PageDateTime, PageNoProps, PageStrPrice}

Clocks == {[y |-> 2024, m |-> 1, d |-> 8],
           [y |-> 2024, m |-> 1, d |-> 31],
           [y |-> 2024, m |-> 5, d |-> 1]}

MaxRecords == 3

SeqsUpTo(S, n) == UNION {[1..k -> S] : k \in 0..n}

Response(status, results, more, cursor) ==
    [status |-> status, results |-> results, has_more |-> more, next_cursor |-> cursor]

\* the records served in one page, or in two pages cut after the first record
OnePage(recs) == <<Response(200, recs, "false", NoCursor)>>
TwoPages(recs) ==
    <<Response(200, SubSeq(recs, 1, 1), "true", "c1"),
      Response(200, SubSeq(recs, 2, Len(recs)), "false", NoCursor)>>

Servers ==
    {OnePage(recs) : recs \in SeqsUpTo(Pages, MaxRecords)}
    \cup {TwoPages(recs) : recs \in SeqsUpTo(Pages, MaxRecords) \ {<<>>}}
    \cup {<<Response(500, <<>>, "absent", NoCursor)>>}

Init == Start(Servers, Clocks)

Spec == Init /\ [][Next]_vars

\* API behaviours for the fetch loop: up to MaxResponses responses, every
\* one before the last a 200 that announces more
MaxResponses == 3

Cursors == {NoCursor, "c1", "c2"}
ResultLists == {<<PageB>>, <<PageA1, PageNoDate>>}

MoreResponses ==
    {Response(200, r, "true", c) : r \in ResultLists, c \in Cursors}
LastResponses ==
    {Response(200, r, m, c) :
        r \in ResultLists \cup {<<>>}, m \in {"true", "false", "absent"}, c \in Cursors}
    \cup {Response(500, <<>>, "absent", NoCursor)}

FetchServers ==
    UNION {{front \o <<last>> : front \in [1..k -> MoreResponses],
                                last \in LastResponses} :
           k \in 0..(MaxResponses - 1)}

InitFetch == Start(FetchServers, {[y |-> 2024, m |-> 1, d |-> 8]})

SpecFetch == InitFetch /\ [][Next]_vars

\* Larger frames: up to MaxBulk rows whose titles and dates follow a
\* pattern, so that more than 10 titles, more than 12 weeks and more than
\* 17 rows occur
MaxBulk == 19

BulkFirstDay == [y |-> 2023, m |-> 11, d |-> 1]

\* the first day of the month after t's
NextMonth(t) ==
    IF t.m < 12 THEN [y |-> t.y, m |-> t.m + 1, d |-> 1]
    ELSE [y |-> t.y + 1, m |-> 1, d |-> 1]

\* the calendar day n days after t
RECURSIVE AddDays(_, _)
AddDays(t, n) ==
    IF t.d + n <= days_in_month(t.y, t.m) THEN [t EXCEPT !.d = t.d + n]
    ELSE AddDays(NextMonth(t), n - (days_in_month(t.y, t.m) - t.d + 1))

TitleNames == <<"T01", "T02", "T03", "T04", "T05", "T06", "T07", "T08", "T09",
                "T10", "T11", "T12", "T13", "T14", "T15", "T16", "T17", "T18",
                "T19", "T20", "T21", "T22", "T23", "T24">>

TitlePatterns == {"distinct", "pairs", "late", "mirror"}
DatePatterns == {"weekly", "weekly_desc", "fortnight", "pairs", "often", "same"}

TitleAt(tp, k, n) ==
    CASE tp = "distinct" -> k
      [] tp = "pairs" -> (k + 1) \div 2
      [] tp = "late" -> IF k <= 12 THEN k ELSE 12
      [] tp = "mirror" -> IF 2 * k <= n THEN k ELSE n - k + 1

DayAt(dp, k, n) ==
    CASE dp = "weekly" -> 7 * (k - 1) + (k % 3)
      [] dp = "weekly_desc" -> 7 * (n - k) + (k % 3)
      [] dp = "fortnight" -> 14 * (k - 1)
      [] dp = "pairs" -> 7 * ((k - 1) \div 2)
      [] dp = "often" -> 3 * (k - 1)
      [] dp = "same" -> 0

BulkPage(tp, dp, k, n) ==
    LET t == AddDays(BulkFirstDay, DayAt(dp, k, n))
    IN  Page(Txt(TitleNames[TitleAt(tp, k, n)]), Num(10 + k), Num(5),
             DateStr(t.y, t.m, t.d, ""))

BulkPages(tp, dp, n) == [k \in 1..n |-> BulkPage(tp, dp, k, n)]

\* pages put before and after the patterned ones
Extras == {<<>>, <<PageNoDate>>, <<PageB>>}

BulkServers ==
    {OnePage(head \o BulkPages(tp, dp, n) \o tail) :
        head \in Extras, tail \in Extras,
        tp \in TitlePatterns, dp \in DatePatterns \ {"same"}, n \in 0..MaxBulk}
    \cup {OnePage(BulkPages(tp, "same", n)) :
             tp \in TitlePatterns, n \in 0..(SMALL_QUICKSORT + 1)}

InitBulk == Start(BulkServers, {[y |-> 2024, m |-> 3, d |-> 15]})

SpecBulk == InitBulk /\ [][Next]_vars

-----------------------------------------------------------------------------
(* Properties *)

\* a date field that holds a real calendar date written YYYY-MM-DD
ValidDateField(f) ==
    /\ f.kind = "str"
    /\ f.rest = ""
    /\ f.m \in 1..12
    /\ f.d \in 1..days_in_month(f.y, f.m)

\* the raw records that carry a resolvable date
DatedPages == {i \in DOMAIN raw_data : ValidDateField(raw_data[i].date)}

DayOfPage(i) == ymd2ord(raw_data[i].date.y, raw_data[i].date.m, raw_data[i].date.d)

Shown == report.computed

\* C1 as stated: today's sales are among this week's, and this week's among
\* this month's, whatever the reference date.
C1_Nested ==
    Shown => /\ report.i_today \subseteq report.i_week
             /\ report.i_week \subseteq report.i_month

\* C1 amended: today's sales are among this week's and among this month's;
\* week_start is the Monday on or before today and month_start the first of
\* today's month; this week's sales are among this month's whenever
\* week_start is not before month_start, and otherwise the sales of the
\* week that are missing from the month are those dated before month_start.
C1_NestedWithinMonth ==
    Shown =>
      /\ weekday(report.week_start) = 0
      /\ report.week_start <= report.today
      /\ report.today - report.week_start < 7
      /\ report.month_start = report.today - clock.d + 1
      /\ report.i_today \subseteq report.i_week
      /\ report.i_today \subseteq report.i_month
      /\ report.week_start >= report.month_start
            => report.i_week \subseteq report.i_month
      /\ \A i \in report.i_week \ report.i_month :
            /\ sales_data[i].sale_date >= report.week_start
            /\ sales_data[i].sale_date < report.month_start

C1_Witness ==
    /\ Shown
    /\ report.i_today # {}
    /\ report.i_today # report.i_week
    /\ report.i_week # report.i_month
    /\ report.i_week \subseteq report.i_month

\* C2: extract_sale_data never raises, whatever the raw record.
C2_NeverRaises == pc # "raised"

\* C3: a record without a resolvable date is in no aggregate, and every
\* record with one is in, also when its prices were defaulted: the rows of
\* df are the dated records in order, and the totals, the rankings, the
\* series and the recent view count those rows and nothing else.
C3_UndatedExcluded ==
    Shown =>
      /\ Len(sales_data) = Cardinality(DatedPages)
      /\ \A i \in Rows(sales_data) : sales_data[i].sale_date # NoDate
      /\ \A i \in DatedPages :
            \E r \in Rows(sales_data) :
               /\ sales_data[r].sale_date = DayOfPage(i)
               /\ sales_data[r].sell_price = OrZero(raw_data[i].sell)
               /\ sales_data[r].buy_price = OrZero(raw_data[i].buy)
      /\ report.p_total.count = Cardinality(DatedPages)
      /\ report.p_month.count <= Cardinality(DatedPages)
      /\ SumSeq([k \in DOMAIN report.daily |-> report.daily[k].n])
            <= Cardinality(DatedPages)
      /\ Len(report.top) < TOP_N
            => SumSeq([k \in DOMAIN report.top |-> report.top[k].n])
                  = Cardinality(DatedPages)
      /\ {report.weekly[k].week : k \in DOMAIN report.weekly}
            \subseteq {MondayOf(DayOfPage(i)) : i \in DatedPages}
      /\ \A k \in DOMAIN report.recent :
            /\ report.recent[k] \in Rows(sales_data)
            /\ \E i \in DatedPages :
                  sales_data[report.recent[k]].sale_date = DayOfPage(i)

C3_Witness ==
    /\ Shown
    /\ \E i \in DOMAIN raw_data : ~ValidDateField(raw_data[i].date)
    /\ \E i \in DatedPages :
          raw_data[i].sell.kind # "num" /\ raw_data[i].buy.kind # "num"

\* C4: when no record carries a resolvable date the run ends on the no-data
\* view: nothing is computed, every count and sum stays 0 and no division
\* is made.
C4_EmptyShortCircuits ==
    (pc = "done" /\ DatedPages = {}) =>
      /\ shown \in {"no_data", "no_sales"}
      /\ report = NoReport
      /\ report.divisions = 0
      /\ report.p_total.count = 0
      /\ report.p_total.revenue = 0

C4_Witness ==
    /\ pc = "done"
    /\ raw_data # <<>>
    /\ DatedPages = {}
    /\ shown = "no_sales"

\* C5: the daily series has 30 entries, one per day of the 30 days ending
\* today, oldest first; each holds the number of sales of its day, so they
\* add up to the number of dated sales inside the window.
C5_DailySeries ==
    Shown =>
      /\ Len(report.daily) = 30
      /\ report.daily[30].date = ymd2ord(clock.y, clock.m, clock.d)
      /\ \A k \in 1..29 : report.daily[k + 1].date = report.daily[k].date + 1
      /\ \A k \in 1..30 :
            report.daily[k].n =
               Cardinality({i \in DatedPages : DayOfPage(i) = report.daily[k].date})
      /\ SumSeq([k \in DOMAIN report.daily |-> report.daily[k].n])
            = Cardinality({i \in DatedPages :
                             /\ DayOfPage(i) <= report.today
                             /\ DayOfPage(i) > report.today - 30})

C5_Witness ==
    /\ Shown
    /\ \E k \in 1..30 : report.daily[k].n > 0
    /\ \E i \in DatedPages : DayOfPage(i) = report.today - 30
    /\ \E i \in DatedPages : DayOfPage(i) > report.today

ExampleRun ==
    /\ raw_data = <<PageA1, PageA2, PageB>>
    /\ clock = [y |-> 2024, m |-> 1, d |-> 8]
    /\ Shown

\* C6 as stated: the example gives today 1/200/100, this week 1 sale and
\* this month 3 sales, revenue 350, margin 190.
C6_Example ==
    ExampleRun =>
      /\ report.p_today = [count |-> 1, revenue |-> 200, margin |-> 100]
      /\ report.p_week.count = 1
      /\ report.p_month = [count |-> 3, revenue |-> 350, margin |-> 190]

\* C6 amended: the same example gives today 1/200/100, this week 1 sale and
\* this month 3 sales, revenue 350, margin 140 (40 + 0 + 100).
C6_ExampleMargin140 ==
    ExampleRun =>
      /\ weekday(report.today) = 0
      /\ report.p_today = [count |-> 1, revenue |-> 200, margin |-> 100]
      /\ report.p_week.count = 1
      /\ report.p_month = [count |-> 3, revenue |-> 350, margin |-> 140]

C6_Witness == ExampleRun /\ report.p_month.count = 3

\* the results of the first k responses, one after the other
RECURSIVE Fetched(_)
Fetched(k) == IF k = 0 THEN <<>> ELSE Fetched(k - 1) \o server[k].results

Stops(resp) == resp.status # 200 \/ resp.has_more # "true"

\* C10: the requests follow each other, each carrying the cursor of the
\* response before it; the loop ends at the first response that does not
\* announce more; the value returned is every page's results in order when
\* all responses were 200, and the empty list as soon as one was not.
C10_FetchLoop ==
    LET n == Len(requests)
    IN  /\ n <= Len(server)
        /\ n >= 1 => requests[1] = NoCursor
        /\ \A k \in 2..n : requests[k] = server[k - 1].next_cursor
        /\ \A k \in 1..(n - 1) : ~Stops(server[k])
        /\ pc = "fetch" =>
              /\ all_results = Fetched(n)
              /\ \A k \in 1..n : server[k].status = 200
        /\ pc # "fetch" =>
              /\ n >= 1
              /\ Stops(server[n])
              /\ raw_data = IF server[n].status = 200 THEN Fetched(n) ELSE <<>>

C10_Witness ==
    /\ pc = "fetched"
    /\ Len(requests) = 3
    /\ requests[2] # requests[3]
    /\ server[3].status # 200
    /\ Fetched(2) # <<>>
    /\ raw_data = <<>>

\* number of rows of df with a title, and the row where it first occurs
TitleCount(t) == Cardinality({i \in Rows(sales_data) : sales_data[i].title = t})
FirstSeen(t) == MinOf({i \in Rows(sales_data) : sales_data[i].title = t})
AllTitles == {sales_data[i].title : i \in Rows(sales_data)}

\* C7: the ranking holds at most 10 titles with their numbers of sales, the
\* larger number first and, for equal numbers, the title seen first in the
\* input first; a title that is left out has no more sales than any listed
\* one, and was seen later than the listed titles with as many sales.
C7_TopProducts ==
    Shown =>
      LET top == report.top
          listed == {top[k].title : k \in DOMAIN top}
      IN  /\ Len(top) <= 10
          /\ Len(top) = IF Cardinality(AllTitles) < 10 THEN Cardinality(AllTitles) ELSE 10
          /\ Cardinality(listed) = Len(top)
          /\ \A k \in DOMAIN top :
                top[k].title \in AllTitles /\ top[k].n = TitleCount(top[k].title)
          /\ \A k \in 1..(Len(top) - 1) :
                \/ top[k].n > top[k + 1].n
                \/ /\ top[k].n = top[k + 1].n
                   /\ FirstSeen(top[k].title) < FirstSeen(top[k + 1].title)
          /\ \A t \in AllTitles \ listed : \A k \in DOMAIN top :
                \/ TitleCount(t) < top[k].n
                \/ /\ TitleCount(t) = top[k].n
                   /\ FirstSeen(top[k].title) < FirstSeen(t)

C7_Witness ==
    /\ Shown
    /\ Cardinality(AllTitles) > 10
    /\ report.top[1].n > report.top[10].n
    /\ FirstSeen(report.top[1].title) > FirstSeen(report.top[2].title)
    /\ \E t \in AllTitles : /\ \A k \in 1..10 : report.top[k].title # t
                            /\ TitleCount(t) = report.top[10].n

\* the sales of the seven days that start on day w
InWeek(w) == {i \in Rows(sales_data) :
                 sales_data[i].sale_date >= w /\ sales_data[i].sale_date < w + 7}
AllWeeks == {w \in {sales_data[i].sale_date - d : i \in Rows(sales_data), d \in 0..6} :
                weekday(w) = 0}

\* C8: the weekly series lists Mondays in increasing order, at most 12 of
\* them, each with the revenue of the sales of its week; every listed week
\* has a sale, and the listed weeks are the latest weeks that have one.
C8_WeeklySeries ==
    Shown =>
      LET wk == report.weekly
      IN  /\ Len(wk) <= 12
          /\ Len(wk) = IF Cardinality(AllWeeks) < 12 THEN Cardinality(AllWeeks) ELSE 12
          /\ \A k \in DOMAIN wk :
                /\ weekday(wk[k].week) = 0
                /\ InWeek(wk[k].week) # {}
                /\ wk[k].ca = SumSeq([j \in 1..Len(sales_data) |->
                                        IF j \in InWeek(wk[k].week)
                                        THEN sales_data[j].sell_price ELSE 0])
          /\ \A k \in 1..(Len(wk) - 1) : wk[k].week < wk[k + 1].week
          /\ \A w \in AllWeeks :
                \/ \E k \in DOMAIN wk : wk[k].week = w
                \/ w < wk[1].week

C8_Witness ==
    /\ Shown
    /\ Cardinality(AllWeeks) > 12
    /\ Len(report.weekly) = 12
    /\ \E k \in 1..11 : report.weekly[k + 1].week - report.weekly[k].week > 7
    /\ \E k \in 1..12 : Cardinality(InWeek(report.weekly[k].week)) > 1

\* C9: the recent view holds the 10 latest sales (all of them when there
\* are fewer), latest first; sales of the same date stay in input order,
\* and of the sales dated like the last one shown, the earliest in the
\* input are the ones shown.
C9_RecentStable ==
    Shown =>
      LET rc == report.recent
          day(i) == sales_data[i].sale_date
      IN  /\ Len(rc) = IF Len(sales_data) < 10 THEN Len(sales_data) ELSE 10
          /\ \A k \in 1..(Len(rc) - 1) :
                \/ day(rc[k]) > day(rc[k + 1])
                \/ day(rc[k]) = day(rc[k + 1]) /\ rc[k] < rc[k + 1]
          /\ \A i \in Rows(sales_data) \ {rc[k] : k \in DOMAIN rc} :
                \A k \in DOMAIN rc :
                   \/ day(i) < day(rc[k])
                   \/ day(i) = day(rc[k]) /\ rc[k] < i

====
